---- MODULE Spec2Model ----
(***************************************************************************)
(* Model of accent_analyzer_project: the accent classification core,      *)
(* normalize_confidence_to_float (azure_speech_client.py) and              *)
(* determine_accent_and_confidence / calculate_processing_quality /        *)
(* get_accent_description / get_supported_accents (accent_logic.py), the   *)
(* rating that display_results shows (app.py), and the extraction of the   *)
(* audio of a video, download_and_extract_audio / convert_any_audio_to_wav *)
(* and prepare_audio_from_local_file (video_utils.py), the recognition,    *)
(* get_azure_credentials / analyze_audio_with_azure                        *)
(* (azure_speech_client.py), and a request of the application from the     *)
(* click on the Analyze button to the end of process_uploaded_file or      *)
(* process_video_url (app.py).                                             *)
(*                                                                         *)
(* Python values are tagged records: the field t is the Python type.       *)
(* A str is a sequence of one-character strings, so that lower(), strip(), *)
(* split() and startswith() are computed character by character.           *)
(* A float is kept as an exact number of thousandths (Scale).              *)
(* A formatted string (f-string) is a sequence of string tokens: the       *)
(* literal parts of the template and the characters or digits spliced in.  *)
(***************************************************************************)
EXTENDS Integers, Sequences, FiniteSets, TLC

VARIABLES call, pc, ret, dir_files, ui

vars == <<call, pc, ret, dir_files, ui>>

--------------------------------------------------------------------------
(* Bounds of the model *)

\* floats are enumerated from -FloatOver/Scale to (Scale + FloatOver)/Scale
FloatOver == 60
\* generated locale strings have at most this many characters
MaxLocaleLen == 5
\* generated transcripts have at most this many characters
MaxTranscriptLen == 3
\* listings of the output directory have at most this many files
MaxFiles == 3
\* generated confidence strings have at most this many characters
MaxConfStrLen == 3
\* calculate_processing_quality is applied to scores -1 .. MaxScore
MaxScore == 101
\* and to transcript lengths 0 .. MaxLength
MaxLength == 52
\* two longer transcripts
LongLengths == {60, 100}

\* resolution of the float representation: a float x is kept as x * Scale
Scale == 1000

--------------------------------------------------------------------------
(* Python values *)

PyNone == [t |-> "NoneType"]
PyStr(s) == [t |-> "str", v |-> s]
PyInt(n) == [t |-> "int", big |-> FALSE, v |-> n]
\* an int beyond the range of a float (abs > sys.float_info.max); v is its sign
PyHugeInt(sign) == [t |-> "int", big |-> TRUE, v |-> sign]
PyBool(b) == [t |-> "bool", v |-> b]
PyFloat(m) == [t |-> "float", k |-> "finite", v |-> m]
PyInf(sign) == [t |-> "float", k |-> "inf", v |-> sign]
PyNaN == [t |-> "float", k |-> "nan", v |-> 0]
\* a value of an unsupported type (a list)
PyList == [t |-> "list"]

\* outcome of a call: a returned value or a raised exception
Return(v) == [t |-> "return", v |-> v]
Raise(e) == [t |-> "raise", v |-> e]
NoRet == [t |-> "pending"]

\* isinstance(x, str); isinstance(x, (int, float)): bool is a subclass of int
IsStr(x) == x.t = "str"
IsIntOrFloat(x) == x.t \in {"int", "bool", "float"}

\* truth value of x in a condition (if x / not x)
Truthy(x) ==
    CASE x.t = "NoneType" -> FALSE
      [] x.t = "str" -> Len(x.v) > 0
      [] x.t = "bool" -> x.v
      [] x.t = "int" -> x.v # 0
      [] x.t = "float" -> ~(x.k = "finite" /\ x.v = 0)
      [] OTHER -> FALSE

\* dict.get(key, default)
Get(d, key, default) == IF key \in DOMAIN d THEN d[key] ELSE default

\* a < b on floats: every comparison with nan is false
FloatLt(a, b) ==
    CASE a.k = "nan" \/ b.k = "nan" -> FALSE
      [] a.k = "inf" /\ b.k = "inf" -> a.v < b.v
      [] a.k = "inf" -> a.v < 0
      [] b.k = "inf" -> b.v > 0
      [] OTHER -> a.v < b.v

\* min(a, b) and max(a, b) of two floats: the first argument is kept unless
\* the second is strictly smaller (larger)
FloatMin(a, b) == IF FloatLt(b, a) THEN b ELSE a
FloatMax(a, b) == IF FloatLt(a, b) THEN b ELSE a

\* float(x) for an int, bool or float: an int beyond the float range raises
ToFloat(x) ==
    CASE x.t = "float" -> Return(x)
      [] x.t = "bool" -> Return(PyFloat(IF x.v THEN Scale ELSE 0))
      [] x.t = "int" /\ x.big -> Raise("OverflowError")
      [] OTHER -> Return(PyFloat(x.v * Scale))

\* x * n for a finite float x and an int n.  The product is exact on the
\* thousandths grid except where the binary64 product falls one ulp below a
\* whole number (0.29 * 100 = 28.999999999999996): it is then kept one
\* unit below, so that int() sees it below the whole number as Python does.
OneUlpBelow == {<<290, 100>>, <<570, 100>>, <<580, 100>>}
FloatMul(x, n) ==
    PyFloat(x.v * n - (IF <<x.v, n>> \in OneUlpBelow THEN 1 ELSE 0))

\* variant of int(x): round to the nearest whole number, halves upward
RoundToInt(x) == (2 * x.v + Scale) \div (2 * Scale)
\* int(x) for a finite float: truncation toward zero
IntOfFloat(x) == IF x.v >= 0 THEN x.v \div Scale ELSE -((-x.v) \div Scale)

\* max(a, b), min(a, b) on ints
IntMax(a, b) == IF a < b THEN b ELSE a
IntMin(a, b) == IF b < a THEN b ELSE a

--------------------------------------------------------------------------
(* str methods *)

\* one character of str.lower()
LowerChar(c) ==
    CASE c = "H" -> "h" [] c = "I" -> "i" [] c = "G" -> "g" [] c = "M" -> "m"
      [] c = "E" -> "e" [] c = "D" -> "d" [] c = "U" -> "u" [] c = "L" -> "l"
      [] c = "O" -> "o" [] c = "W" -> "w" [] OTHER -> c
\* variant of str.lower() that keeps the case
Lower_unchanged(s) == s
\* str.lower()
Lower(s) == [i \in 1..Len(s) |-> LowerChar(s[i])]

StartsWith(s, p) == Len(s) >= Len(p) /\ SubSeq(s, 1, Len(p)) = p

\* s.endswith(suffix)
EndsWith(s, suffix) ==
    /\ Len(s) >= Len(suffix)
    /\ SubSeq(s, Len(s) - Len(suffix) + 1, Len(s)) = suffix

\* sub in s, for a string sub
ContainsStr(s, sub) ==
    \E i \in 0..(Len(s) - Len(sub)) : SubSeq(s, i + 1, i + Len(sub)) = sub

IsSpace(c) == c = " "

\* s.strip(): leading and trailing whitespace removed
RECURSIVE LStrip(_)
LStrip(s) == IF s # <<>> /\ IsSpace(Head(s)) THEN LStrip(Tail(s)) ELSE s
RECURSIVE RStrip(_)
RStrip(s) ==
    IF s # <<>> /\ IsSpace(s[Len(s)]) THEN RStrip(SubSeq(s, 1, Len(s) - 1)) ELSE s
\* variant that strips nothing
Strip_unchanged(s) == s

Strip(s) == RStrip(LStrip(s))

\* s.split(sep): the pieces of s between the occurrences of the character sep
RECURSIVE SplitOn(_, _, _)
SplitOn(s, sep, cur) ==
    IF s = <<>> THEN <<cur>>
    ELSE IF Head(s) = sep THEN <<cur>> \o SplitOn(Tail(s), sep, <<>>)
    ELSE SplitOn(Tail(s), sep, Append(cur, Head(s)))
Split(s, sep) == SplitOn(s, sep, <<>>)

\* s.split(): the runs of non-whitespace characters of s
RECURSIVE SplitWs(_, _)
SplitWs(s, cur) ==
    IF s = <<>> THEN (IF cur = <<>> THEN <<>> ELSE <<cur>>)
    ELSE IF IsSpace(Head(s))
         THEN (IF cur = <<>> THEN <<>> ELSE <<cur>>) \o SplitWs(Tail(s), <<>>)
         ELSE SplitWs(Tail(s), Append(cur, Head(s)))
SplitWhitespace(s) == SplitWs(s, <<>>)

\* "sep" in s
Contains(s, c) == \E i \in 1..Len(s) : s[i] = c

\* the text an f-string splices in for a value
Format(x) ==
    CASE x.t = "str" -> x.v
      [] x.t = "int" -> <<ToString(x.v)>>
      [] OTHER -> <<"None">>

--------------------------------------------------------------------------
(* azure_speech_client.normalize_confidence_to_float *)

high == <<"h", "i", "g", "h">>
medium == <<"m", "e", "d", "i", "u", "m">>
low == <<"l", "o", "w">>

\* confidence_map.get(key, 0.5)
confidence_map(key) ==
    CASE key = high -> PyFloat(950)
      [] key = medium -> PyFloat(700)
      [] key = low -> PyFloat(400)
      [] OTHER -> PyFloat(500)

\* variant of the clamp without the upper bound
Clamp01_no_ceiling(f) == FloatMax(PyFloat(0), f)
\* max(0.0, min(1.0, f))
Clamp01(f) == FloatMax(PyFloat(0), FloatMin(PyFloat(Scale), f))

normalize_confidence_to_float(confidence_value) ==
    IF IsStr(confidence_value)
    THEN Return(confidence_map(Lower(confidence_value.v)))
    ELSE IF IsIntOrFloat(confidence_value)
    THEN LET f == ToFloat(confidence_value)
         IN  IF f.t = "raise" THEN f ELSE Return(Clamp01(f.v))
    ELSE Return(PyFloat(500))

--------------------------------------------------------------------------
(* accent_logic.calculate_processing_quality *)

\* variant with inclusive thresholds
calculate_processing_quality_le(confidence, transcript_length, locale) ==
    IF confidence = 0 THEN "Poor - No speech detected"
    ELSE IF confidence <= 30 THEN "Poor - Low confidence"
    ELSE IF confidence <= 60
         THEN (IF transcript_length <= 10
               THEN "Fair - Moderate confidence, short audio"
               ELSE "Good - Moderate confidence")
    ELSE IF confidence <= 80
         THEN (IF transcript_length >= 50
               THEN "Very Good - High confidence, sufficient audio"
               ELSE "Good - High confidence")
    ELSE (IF transcript_length >= 50
          THEN "Excellent - Very high confidence, sufficient audio"
          ELSE "Very Good - Very high confidence")

\* variant whose first rating has no tier
calculate_processing_quality_untiered(confidence, transcript_length, locale) ==
    IF confidence = 0 THEN "No speech detected"
    ELSE calculate_processing_quality_le(confidence, transcript_length, locale)

\* variant in which only scores below 5 are rated Poor
calculate_processing_quality_strict(confidence, transcript_length, locale) ==
    IF confidence = 0 THEN "Poor - No speech detected"
    ELSE IF confidence < 5 THEN "Poor - Low confidence"
    ELSE IF confidence < 60
         THEN (IF transcript_length < 10
               THEN "Fair - Moderate confidence, short audio"
               ELSE "Good - Moderate confidence")
    ELSE IF confidence < 80
         THEN (IF transcript_length > 50
               THEN "Very Good - High confidence, sufficient audio"
               ELSE "Good - High confidence")
    ELSE (IF transcript_length > 50
          THEN "Excellent - Very high confidence, sufficient audio"
          ELSE "Very Good - Very high confidence")

calculate_processing_quality(confidence, transcript_length, locale) ==
    IF confidence = 0 THEN "Poor - No speech detected"
    ELSE IF confidence < 30 THEN "Poor - Low confidence"
    ELSE IF confidence < 60
         THEN (IF transcript_length < 10
               THEN "Fair - Moderate confidence, short audio"
               ELSE "Good - Moderate confidence")
    ELSE IF confidence < 80
         THEN (IF transcript_length > 50
               THEN "Very Good - High confidence, sufficient audio"
               ELSE "Good - High confidence")
    ELSE (IF transcript_length > 50
          THEN "Excellent - Very high confidence, sufficient audio"
          ELSE "Very Good - Very high confidence")

--------------------------------------------------------------------------
(* accent_logic.determine_accent_and_confidence *)

en == <<"e", "n">>
en_dash == <<"e", "n", "-">>
en_US == <<"e", "n", "-", "U", "S">>
en_GB == <<"e", "n", "-", "G", "B">>
en_AU == <<"e", "n", "-", "A", "U">>
en_CA == <<"e", "n", "-", "C", "A">>
en_IN == <<"e", "n", "-", "I", "N">>
en_NZ == <<"e", "n", "-", "N", "Z">>
en_ZA == <<"e", "n", "-", "Z", "A">>
en_IE == <<"e", "n", "-", "I", "E">>
en_SG == <<"e", "n", "-", "S", "G">>

\* the keys of the dict locale_to_accent
TableLocales == {en_US, en_GB, en_AU, en_CA, en_IN, en_NZ, en_ZA, en_IE, en_SG}

\* variant of the table with labels exchanged
locale_to_accent_shifted(locale) ==
    CASE locale = en_US -> "British English"
      [] locale = en_GB -> "American English"
      [] locale = en_AU -> "New Zealand English"
      [] locale = en_CA -> "Canadian English"
      [] locale = en_IN -> "Indian English"
      [] locale = en_NZ -> "Australian English"
      [] locale = en_ZA -> "South African English"
      [] locale = en_IE -> "Irish English"
      [] locale = en_SG -> "Singaporean English"

\* variant of the table with a label outside the documented ones
locale_to_accent_short(locale) ==
    CASE locale = en_US -> "American"
      [] locale = en_GB -> "British English"
      [] locale = en_AU -> "Australian English"
      [] locale = en_CA -> "Canadian English"
      [] locale = en_IN -> "Indian English"
      [] locale = en_NZ -> "New Zealand English"
      [] locale = en_ZA -> "South African English"
      [] locale = en_IE -> "Irish English"
      [] locale = en_SG -> "Singaporean English"

locale_to_accent(locale) ==
    CASE locale = en_US -> "American English"
      [] locale = en_GB -> "British English"
      [] locale = en_AU -> "Australian English"
      [] locale = en_CA -> "Canadian English"
      [] locale = en_IN -> "Indian English"
      [] locale = en_NZ -> "New Zealand English"
      [] locale = en_ZA -> "South African English"
      [] locale = en_IE -> "Irish English"
      [] locale = en_SG -> "Singaporean English"

\* variant: get("transcription_confidence") without a default
default_confidence_none == PyNone
\* the default of azure_analysis_result.get("transcription_confidence", 0.0)
default_confidence == PyFloat(0)

\* variant of region_code: everything after the first "-"
region_code_rest(detected_locale) ==
    IF Contains(detected_locale, "-")
    THEN SubSeq(detected_locale, 1 + Len(Split(detected_locale, "-")[1]) + 1,
                Len(detected_locale))
    ELSE <<"Unknown">>

\* the region an unknown English variant is labelled with:
\* detected_locale.split("-")[1] if "-" in detected_locale else "Unknown"
region_code(detected_locale) ==
    IF Contains(detected_locale, "-")
    THEN Split(detected_locale, "-")[2]
    ELSE <<"Unknown">>

\* variant: round(normalized_confidence * 100)
english_score_rounded(normalized_confidence) ==
    RoundToInt(FloatMul(normalized_confidence, 100))

\* int(normalized_confidence * 100)
english_score(normalized_confidence) ==
    IntOfFloat(FloatMul(normalized_confidence, 100))

\* variant: max(0, min(10, round(normalized_confidence * 10)))
non_english_score_rounded(normalized_confidence) ==
    IntMax(0, IntMin(10, RoundToInt(FloatMul(normalized_confidence, 10))))

\* variant: the percentage, without the ceiling of 10
non_english_score_percent(normalized_confidence) ==
    IntOfFloat(FloatMul(normalized_confidence, 100))

\* max(0, min(10, int(normalized_confidence * 10)))
non_english_score(normalized_confidence) ==
    IntMax(0, IntMin(10, IntOfFloat(FloatMul(normalized_confidence, 10))))

\* variant: the length of the trimmed transcript
transcript_length_stripped(transcript_text) ==
    IF Truthy(transcript_text) THEN Len(Strip(transcript_text.v)) ELSE 0

\* len(transcript_text) if transcript_text else 0
transcript_length(transcript_text) ==
    IF Truthy(transcript_text) THEN Len(transcript_text.v) ELSE 0

\* the classification (label, score, explanation) chosen by the if / elif chain
classification(error_info, detected_locale, normalized_confidence) ==
    IF Truthy(error_info)
    THEN [accent_classification |-> <<"Analysis Failed">>,
          confidence_in_english_accent |-> 0,
          summary_explanation |-> <<"Analysis failed: ">> \o Format(error_info)]
    ELSE IF ~Truthy(detected_locale)
    THEN [accent_classification |-> <<"Undetermined">>,
          confidence_in_english_accent |-> 0,
          summary_explanation |-> <<"Could not detect any speech or language.">>]
    ELSE IF detected_locale.v = en
    THEN LET score == english_score(normalized_confidence)
         IN  [accent_classification |-> <<"English (Undetermined Region)">>,
              confidence_in_english_accent |-> score,
              summary_explanation |->
                  <<"Detected generic English. Confidence in English: ",
                    ToString(score), "%. Language code: ">>
                  \o detected_locale.v \o <<".">>]
    ELSE IF StartsWith(detected_locale.v, en_dash)
    THEN LET label == IF detected_locale.v \in TableLocales
                      THEN <<locale_to_accent(detected_locale.v)>>
                      ELSE <<"English (Other Regional - ">>
                           \o region_code(detected_locale.v) \o <<")">>
             score == english_score(normalized_confidence)
         IN  [accent_classification |-> label,
              confidence_in_english_accent |-> score,
              summary_explanation |->
                  <<"Detected accent: ">> \o label
                  \o <<". Confidence in English: ", ToString(score),
                       "%. Language code: ">>
                  \o detected_locale.v \o <<".">>]
    ELSE [accent_classification |-> <<"Non-English">>,
          confidence_in_english_accent |-> non_english_score(normalized_confidence),
          summary_explanation |->
              <<"Detected non-English language. Language code: ">>
              \o detected_locale.v
              \o <<". This tool is designed for English accent analysis.">>]

determine_accent_and_confidence(azure_analysis_result) ==
    LET detected_locale == Get(azure_analysis_result, "detected_locale", PyNone)
        transcription_confidence ==
            Get(azure_analysis_result, "transcription_confidence", default_confidence)
        transcript_text == Get(azure_analysis_result, "transcript_text", PyStr(<<>>))
        error_info == Get(azure_analysis_result, "error", PyNone)
        normalized == normalize_confidence_to_float(transcription_confidence)
    IN  IF normalized.t = "raise" THEN normalized
        ELSE
        LET normalized_confidence == normalized.v
            debug_info ==
                [raw_detected_locale |-> detected_locale,
                 raw_transcription_confidence |-> transcription_confidence,
                 normalized_confidence |-> normalized_confidence,
                 transcript_length |-> transcript_length(transcript_text),
                 azure_error |-> error_info,
                 raw_azure_response |->
                     Get(azure_analysis_result, "raw_azure_response", PyNone)]
            c == classification(error_info, detected_locale, normalized_confidence)
            has_words == Truthy(transcript_text)
                         /\ Len(Strip(transcript_text.v)) > 0
            word_count == Len(SplitWhitespace(transcript_text.v))
            processing_quality ==
                calculate_processing_quality(c.confidence_in_english_accent,
                                             transcript_length(transcript_text),
                                             detected_locale)
        IN  Return(
             [accent_classification |-> c.accent_classification,
              confidence_in_english_accent |-> c.confidence_in_english_accent,
              summary_explanation |->
                  IF has_words
                  THEN c.summary_explanation
                       \o <<" Transcript contains ", ToString(word_count), " words.">>
                  ELSE c.summary_explanation,
              transcript_text |-> transcript_text,
              processing_quality |-> processing_quality,
              debug_info |->
                  IF has_words
                  THEN debug_info @@ ("word_count" :> word_count)
                  ELSE debug_info])

--------------------------------------------------------------------------
(* accent_logic.get_accent_description, accent_logic.get_supported_accents *)

\* the keys of locale_to_accent in the order of the dict literal
locale_to_accent_keys ==
    <<en_US, en_GB, en_AU, en_CA, en_IN, en_NZ, en_ZA, en_IE, en_SG>>

\* the default of descriptions.get
generic_description == "Regional variant of English with unique characteristics."

\* descriptions.get(accent_classification, generic description)
get_accent_description(accent_classification) ==
    CASE accent_classification = "American English" ->
           "North American English, commonly heard in the United States. Features rhotic pronunciation and distinctive vowel patterns."
      [] accent_classification = "British English" ->
           "English as spoken in the United Kingdom, including Received Pronunciation and regional variants. Often non-rhotic with distinct vowel sounds."
      [] accent_classification = "Australian English" ->
           "English as spoken in Australia, with distinctive vowel sounds and unique pronunciation patterns influenced by British English."
      [] accent_classification = "Canadian English" ->
           "North American English with some British influences, spoken in Canada. Similar to American English but with some distinct features."
      [] accent_classification = "Indian English" ->
           "English as spoken in India, influenced by local languages. Features unique pronunciation patterns and vocabulary."
      [] accent_classification = "New Zealand English" ->
           "English as spoken in New Zealand, similar to Australian but with distinct characteristics, particularly in vowel pronunciation."
      [] accent_classification = "South African English" ->
           "English as spoken in South Africa, with unique characteristics influenced by Afrikaans and local languages."
      [] accent_classification = "Irish English" ->
           "English as spoken in Ireland, with Celtic influences and distinctive pronunciation patterns."
      [] accent_classification = "Singaporean English" ->
           "English as spoken in Singapore, influenced by various local languages and featuring unique pronunciation patterns."
      [] OTHER -> generic_description

\* variant of the list with two labels exchanged
get_supported_accents_swapped ==
    <<"American English", "British English", "Australian English",
      "Canadian English", "Indian English", "South African English",
      "New Zealand English", "Irish English", "Singaporean English">>

get_supported_accents ==
    <<"American English", "British English", "Australian English",
      "Canadian English", "Indian English", "New Zealand English",
      "South African English", "Irish English", "Singaporean English">>

--------------------------------------------------------------------------
(* app.display_results: the rating shown for a processing quality *)

\* the characters of a string literal of the rating rules
Chars(s) ==
    CASE s = "Poor - No speech detected" ->
           <<"P", "o", "o", "r", " ", "-", " ", "N", "o", " ", "s", "p", 
           "e", "e", "c", "h", " ", "d", "e", "t", "e", "c", "t", "e", 
           "d">>
      [] s = "Poor - Low confidence" ->
           <<"P", "o", "o", "r", " ", "-", " ", "L", "o", "w", " ", "c", 
           "o", "n", "f", "i", "d", "e", "n", "c", "e">>
      [] s = "Fair - Moderate confidence, short audio" ->
           <<"F", "a", "i", "r", " ", "-", " ", "M", "o", "d", "e", "r", 
           "a", "t", "e", " ", "c", "o", "n", "f", "i", "d", "e", "n", 
           "c", "e", ",", " ", "s", "h", "o", "r", "t", " ", "a", "u", 
           "d", "i", "o">>
      [] s = "Good - Moderate confidence" ->
           <<"G", "o", "o", "d", " ", "-", " ", "M", "o", "d", "e", "r", 
           "a", "t", "e", " ", "c", "o", "n", "f", "i", "d", "e", "n", 
           "c", "e">>
      [] s = "Very Good - High confidence, sufficient audio" ->
           <<"V", "e", "r", "y", " ", "G", "o", "o", "d", " ", "-", " ", 
           "H", "i", "g", "h", " ", "c", "o", "n", "f", "i", "d", "e", 
           "n", "c", "e", ",", " ", "s", "u", "f", "f", "i", "c", "i", 
           "e", "n", "t", " ", "a", "u", "d", "i", "o">>
      [] s = "Good - High confidence" ->
           <<"G", "o", "o", "d", " ", "-", " ", "H", "i", "g", "h", " ", 
           "c", "o", "n", "f", "i", "d", "e", "n", "c", "e">>
      [] s = "Excellent - Very high confidence, sufficient audio" ->
           <<"E", "x", "c", "e", "l", "l", "e", "n", "t", " ", "-", " ", 
           "V", "e", "r", "y", " ", "h", "i", "g", "h", " ", "c", "o", 
           "n", "f", "i", "d", "e", "n", "c", "e", ",", " ", "s", "u", 
           "f", "f", "i", "c", "i", "e", "n", "t", " ", "a", "u", "d", 
           "i", "o">>
      [] s = "Very Good - Very high confidence" ->
           <<"V", "e", "r", "y", " ", "G", "o", "o", "d", " ", "-", " ", 
           "V", "e", "r", "y", " ", "h", "i", "g", "h", " ", "c", "o", 
           "n", "f", "i", "d", "e", "n", "c", "e">>
      [] s = "No speech detected" ->
           <<"N", "o", " ", "s", "p", "e", "e", "c", "h", " ", "d", "e", 
           "t", "e", "c", "t", "e", "d">>

\* s.split(sep) for a separator of several characters
RECURSIVE SplitSepFrom(_, _, _)
SplitSepFrom(s, sep, cur) ==
    IF Len(s) < Len(sep) THEN <<cur \o s>>
    ELSE IF SubSeq(s, 1, Len(sep)) = sep
         THEN <<cur>> \o SplitSepFrom(SubSeq(s, Len(sep) + 1, Len(s)), sep, <<>>)
         ELSE SplitSepFrom(Tail(s), sep, Append(cur, Head(s)))
SplitSep(s, sep) == SplitSepFrom(s, sep, <<>>)

\* result["processing_quality"].split(" - ")[0]
quality_rating(processing_quality) ==
    SplitSep(Chars(processing_quality), <<" ", "-", " ">>)[1]

Excellent == <<"E", "x", "c", "e", "l", "l", "e", "n", "t">>
VeryGood == <<"V", "e", "r", "y", " ", "G", "o", "o", "d">>
Good == <<"G", "o", "o", "d">>
Fair == <<"F", "a", "i", "r">>
Poor == <<"P", "o", "o", "r">>

\* quality_color.get(quality_rating, white circle): the colour of the icon
quality_icon(rating) ==
    CASE rating = Excellent -> "green"
      [] rating = VeryGood -> "green"
      [] rating = Good -> "yellow"
      [] rating = Fair -> "yellow"
      [] rating = Poor -> "red"
      [] OTHER -> "white"

--------------------------------------------------------------------------
(* video_utils.convert_any_audio_to_wav, video_utils.download_and_extract_audio *)
(* The content of the output directory is a sequence of files (name, size) *)
(* in the order in which os.listdir lists them.                            *)

File(name, size) == [name |-> name, size |-> size]
Exists(files, name) == \E i \in 1..Len(files) : files[i].name = name
GetSize(files, name) ==
    files[CHOOSE i \in 1..Len(files) : files[i].name = name].size
\* the directory after a program wrote the file: replaced, or added
WriteFile(files, name, size) ==
    IF Exists(files, name)
    THEN [i \in 1..Len(files) |->
             IF files[i].name = name THEN File(name, size) ELSE files[i]]
    ELSE Append(files, File(name, size))
\* the directory after os.remove
RemoveFile(files, name) == SelectSeq(files, LAMBDA f : f.name # name)

\* os.path.join(output_dir, name), and the name of a path of that form
os_path_join(output_dir, name) == output_dir \o <<"/">> \o name
BaseName(output_dir, path) == SubSeq(path, Len(output_dir) + 2, Len(path))

base_filename == <<"y", "o", "u", "t", "u", "b", "e", "_", "a", "u", "d", "i", "o">>
expected_wav_filename == base_filename \o <<".", "w", "a", "v">>
converted_wav_filename == base_filename \o <<"_", "c", "o", "n", "v", "e", "r", "t", "e", "d", ".", "w", "a", "v">>
dot_wav == <<".", "w", "a", "v">>
audio_extensions ==
    <<<<".", "m", "4", "a">>,
      <<".", "m", "p", "4">>,
      <<".", "w", "e", "b", "m">>,
      <<".", "o", "g", "g">>,
      <<".", "m", "p", "3">>,
      <<".", "a", "a", "c">>,
      <<".", "o", "p", "u", "s">>>>
\* the size a file must exceed to be used
min_size == 1000

\* variant: the first entry, whatever its size
Largest_first(entries) == entries[1]

\* entries.sort(key=size, reverse=True)[0]: the first of the largest entries
\* (the sort is stable)
Largest(entries) ==
    entries[CHOOSE i \in 1..Len(entries) :
                \A j \in 1..Len(entries) :
                    \/ entries[j].size < entries[i].size
                    \/ entries[j].size = entries[i].size /\ i <= j]

\* What a run of ffmpeg does: it ends ("exit") with a return code, having
\* written the output file (output_size) or not (NoOutput); or it does not
\* end in time ("timeout"); or it cannot be started ("error").
NoOutput == -1
convert_any_audio_to_wav(files, output_dir, input_name, output_name, ffmpeg) ==
    IF ~Exists(files, input_name) THEN [ret |-> PyNone, files |-> files]
    ELSE IF ffmpeg.outcome # "exit" THEN [ret |-> PyNone, files |-> files]
    ELSE LET after == IF ffmpeg.output_size = NoOutput THEN files
                      ELSE WriteFile(files, output_name, ffmpeg.output_size)
         IN  IF ffmpeg.returncode = 0 /\ Exists(after, output_name)
             THEN [ret |-> PyStr(os_path_join(output_dir, output_name)),
                   files |-> after]
             ELSE [ret |-> PyNone, files |-> after]

\* the files the secondary check collects: WAV files named after the base
wav_files(all_files) ==
    SelectSeq(all_files,
              LAMBDA f : /\ EndsWith(Lower(f.name), dot_wav)
                         /\ ContainsStr(f.name, base_filename))

\* the files the tertiary check collects: audio files named after the base
intermediate_files(all_files) ==
    SelectSeq(all_files,
              LAMBDA f : /\ \E k \in 1..Len(audio_extensions) :
                                EndsWith(Lower(f.name), audio_extensions[k])
                         /\ \/ ContainsStr(f.name, base_filename)
                            \/ StartsWith(f.name, base_filename)
                            \/ StartsWith(f.name, base_filename \o <<".">>))

\* the checks after ydl.download() returned, on the listing all_files
select_audio(output_dir, all_files, ffmpeg, remove) ==
    IF /\ Exists(all_files, expected_wav_filename)
       /\ GetSize(all_files, expected_wav_filename) > min_size
    THEN [ret |-> Return(PyStr(os_path_join(output_dir, expected_wav_filename))),
          files |-> all_files]
    ELSE IF /\ wav_files(all_files) # <<>>
            /\ Largest(wav_files(all_files)).size > min_size
    THEN [ret |-> Return(PyStr(os_path_join(output_dir,
                                            Largest(wav_files(all_files)).name))),
          files |-> all_files]
    ELSE IF /\ intermediate_files(all_files) # <<>>
            /\ Largest(intermediate_files(all_files)).size > min_size
    THEN LET largest_intermediate == Largest(intermediate_files(all_files))
             converted ==
                 convert_any_audio_to_wav(all_files, output_dir,
                                          largest_intermediate.name,
                                          converted_wav_filename, ffmpeg)
         IN  IF /\ Truthy(converted.ret)
                /\ Exists(converted.files, converted_wav_filename)
             THEN [ret |-> Return(converted.ret),
                   files |-> IF remove = "ok"
                             THEN RemoveFile(converted.files,
                                             largest_intermediate.name)
                             ELSE converted.files]
             ELSE [ret |-> Return(PyNone), files |-> converted.files]
    ELSE [ret |-> Return(PyNone), files |-> all_files]

\* download_and_extract_audio(video_url, output_dir).  What the function
\* meets is given with the call: the state of output_dir before the call
\* (dir), whether os.makedirs succeeds (makedirs), whether YoutubeDL is
\* built and the download ends without an exception (download: an invalid
\* or malformed URL makes ydl.download raise), whether output_dir exists
\* afterwards (dir_after), the files it then holds (listing; none when the
\* directory is gone), what ffmpeg
\* does (ffmpeg) and whether os.remove succeeds (remove).
download_and_extract_audio(c) ==
    IF c.dir = "missing" /\ c.makedirs = "raise"
    THEN [ret |-> Return(PyNone), files |-> <<>>]
    ELSE IF c.dir = "unlistable"
    THEN [ret |-> Raise("OSError"), files |-> <<>>]
    ELSE IF c.download = "init_raise"
    THEN [ret |-> Return(PyNone), files |-> <<>>]
    ELSE IF c.download = "raise"
    THEN [ret |-> Return(PyNone),
          files |-> IF c.dir_after THEN c.listing ELSE <<>>]
    ELSE IF ~c.dir_after
    THEN [ret |-> Return(PyNone), files |-> <<>>]
    ELSE select_audio(c.output_dir, c.listing, c.ffmpeg, c.remove)

--------------------------------------------------------------------------
(* azure_speech_client.get_azure_credentials *)

\* len(x) is defined
HasLen(x) == x.t \in {"str", "list"}

\* get_azure_credentials().  secrets is what st.secrets holds (available is
\* FALSE when reading it raises, as without a secrets file), env is what
\* os.getenv returns for the two variables.  The result is a pair.
get_azure_credentials(secrets, env) ==
    IF /\ secrets.available
       /\ Truthy(secrets.AZURE_SPEECH_KEY)
       /\ Truthy(secrets.AZURE_SPEECH_REGION)
       /\ HasLen(secrets.AZURE_SPEECH_KEY)
    THEN <<secrets.AZURE_SPEECH_KEY, secrets.AZURE_SPEECH_REGION>>
    ELSE <<env.AZURE_SPEECH_KEY, env.AZURE_SPEECH_REGION>>

--------------------------------------------------------------------------
(* azure_speech_client.analyze_audio_with_azure *)
(* What the function meets is given with the call: the audio file (missing, *)
(* empty or ok), the secrets and the environment, and what the Speech SDK   *)
(* does (sdk): it raises an exception with a message, or recognize_once     *)
(* returns a result with a reason.  A recognised result carries the         *)
(* detected language, the text and the JSON payload of the service.         *)

\* variant: the default of a recognised result as a percentage
default_recognized_confidence_percent == PyFloat(85 * Scale)
\* confidence = 0.85 when the JSON holds no confidence
default_recognized_confidence == PyFloat(850)
\* confidence = 0.80 when the JSON cannot be read
default_unreadable_confidence == PyFloat(800)

\* str(e) of the exceptions that the reading of the JSON raises
ExceptionText(e) ==
    CASE e = "OverflowError" -> <<"int too large to convert to float">>
      [] e = "AttributeError" -> <<"'int' object has no attribute 'get'">>
      [] e = "TypeError" -> <<"argument of type 'int' is not iterable">>

\* the confidence read from the JSON payload (lines 171-193), or the
\* exception that the handler of JSONDecodeError and KeyError lets through
recognized_confidence(json) ==
    CASE json.kind = "none" -> Return(PyFloat(0))
      [] json.kind = "invalid" -> Return(default_unreadable_confidence)
      [] json.kind = "scalar" -> Raise("TypeError")
      [] json.kind = "array" -> Return(default_recognized_confidence)
      [] json.kind = "object" ->
           IF json.NBest.kind = "entry"
           THEN normalize_confidence_to_float(
                    Get(json.NBest, "Confidence", PyFloat(0)))
           ELSE IF json.NBest.kind = "scalar_entry"
           THEN Raise("AttributeError")
           ELSE IF json.NBest.kind = "dict"
           THEN Return(default_unreadable_confidence)
           ELSE IF "confidence" \in DOMAIN json
           THEN normalize_confidence_to_float(json.confidence)
           ELSE Return(default_recognized_confidence)

\* the record of a failure found before or after the recognition
FailureRecord(error) ==
    [detected_locale |-> PyNone,
     transcription_confidence |-> PyFloat(0),
     transcript_text |-> PyStr(<<>>),
     error |-> PyStr(error)]

\* the record of the handler of Exception: the error is str(e)
ExceptionRecord(message) ==
    [detected_locale |-> PyNone,
     transcription_confidence |-> PyFloat(0),
     transcript_text |-> PyStr(<<>>),
     error |-> PyStr(message),
     exception_details |-> PyStr(<<"Traceback">>)]

analyze_audio_with_azure(audio_filepath, audio, secrets, env, sdk) ==
    LET credentials == get_azure_credentials(secrets, env)
    IN  IF audio = "missing"
        THEN FailureRecord(<<"Audio file not found: ">> \o audio_filepath)
        ELSE IF audio = "empty"
        THEN FailureRecord(<<"Audio file is empty: ">> \o audio_filepath)
        ELSE IF ~Truthy(credentials[1]) \/ ~Truthy(credentials[2])
        THEN FailureRecord(<<"Azure Speech API credentials not configured. Please check your secrets/environment variables.">>)
        ELSE IF sdk.outcome = "raise"
        THEN ExceptionRecord(sdk.message)
        ELSE IF sdk.outcome = "RecognizedSpeech"
        THEN LET confidence == recognized_confidence(sdk.json)
             IN  IF confidence.t = "raise"
                 THEN ExceptionRecord(ExceptionText(confidence.v))
                 ELSE [detected_locale |-> sdk.language,
                       transcription_confidence |-> confidence.v,
                       transcript_text |-> sdk.text,
                       raw_azure_response |->
                           [t |-> "dict", reason |-> "ResultReason.RecognizedSpeech"]]
        ELSE IF sdk.outcome = "NoMatch"
        THEN [detected_locale |-> PyNone,
              transcription_confidence |-> PyFloat(0),
              transcript_text |-> PyStr(<<>>),
              raw_azure_response |->
                  [t |-> "dict", reason |-> "ResultReason.NoMatch"]]
        ELSE IF sdk.outcome = "Canceled"
        THEN LET error_details_str ==
                     IF sdk.reason = "CancellationReason.Error"
                     THEN (IF Truthy(sdk.error_details) THEN sdk.error_details
                           ELSE PyStr(<<"No error details available">>))
                     ELSE PyNone
             IN  FailureRecord(
                     <<"Azure recognition canceled. Reason: ", sdk.reason,
                       ". Details: ">>
                     \o (IF Truthy(error_details_str) THEN error_details_str.v
                         ELSE <<"N/A">>))
                 @@ [azure_error_details_debug |-> error_details_str,
                     cancellation_reason |-> PyStr(<<sdk.reason>>)]
        ELSE FailureRecord(<<"Unknown Azure result reason: ", sdk.outcome>>)

--------------------------------------------------------------------------
(* video_utils.prepare_audio_from_local_file *)

processed_wav_filename ==
    <<"p", "r", "o", "c", "e", "s", "s", "e", "d", "_", "l", "o", "c", "a", "l", "_", "a", "u", "d", "i", "o", ".", "w", "a", "v">>

\* variant that does not verify that the output file was created
prepare_audio_from_local_file_unverified(input_exists, files, output_dir, ffmpeg) ==
    IF ~input_exists THEN [ret |-> Return(PyNone), files |-> files]
    ELSE IF ffmpeg.outcome # "exit" THEN [ret |-> Return(PyNone), files |-> files]
    ELSE LET after == IF ffmpeg.output_size = NoOutput THEN files
                      ELSE WriteFile(files, processed_wav_filename,
                                     ffmpeg.output_size)
         IN  IF ffmpeg.returncode = 0
             THEN [ret |-> Return(PyStr(os_path_join(output_dir,
                                                     processed_wav_filename))),
                   files |-> after]
             ELSE [ret |-> Return(PyNone), files |-> after]

\* prepare_audio_from_local_file(input_filepath, output_dir): input_exists is
\* os.path.exists(input_filepath), files is the content of output_dir before
\* the call, ffmpeg is what the run of ffmpeg does (every outcome other
\* than "exit" is an exception of subprocess.run)
prepare_audio_from_local_file(input_exists, files, output_dir, ffmpeg) ==
    IF ~input_exists THEN [ret |-> Return(PyNone), files |-> files]
    ELSE IF ffmpeg.outcome # "exit" THEN [ret |-> Return(PyNone), files |-> files]
    ELSE LET after == IF ffmpeg.output_size = NoOutput THEN files
                      ELSE WriteFile(files, processed_wav_filename,
                                     ffmpeg.output_size)
         IN  IF ffmpeg.returncode = 0 /\ Exists(after, processed_wav_filename)
             THEN [ret |-> Return(PyStr(os_path_join(output_dir,
                                                     processed_wav_filename))),
                   files |-> after]
             ELSE [ret |-> Return(PyNone), files |-> after]

--------------------------------------------------------------------------
(* The inputs of the calls *)

\* every string of at most n characters of the alphabet A
StringsUpTo(A, n) == UNION {[1..k -> A] : k \in 0..n}

\* marks a key that the dict does not hold
Absent == [t |-> "absent"]

fr_FR == <<"f", "r", "-", "F", "R">>
en_XX == <<"e", "n", "-", "X", "X">>
en_us == <<"e", "n", "-", "u", "s">>
EN_US == <<"E", "N", "-", "U", "S">>
en_Latn_US == <<"e", "n", "-", "L", "a", "t", "n", "-", "U", "S">>

LocaleStrings ==
    StringsUpTo({"e", "n", "-"}, MaxLocaleLen)
    \cup TableLocales \cup {fr_FR, en_XX, en_us, EN_US, en_Latn_US}
LocaleValues == {Absent, PyNone} \cup {PyStr(s) : s \in LocaleStrings}
FewLocales ==
    {Absent, PyNone, PyStr(<<>>), PyStr(en), PyStr(en_US), PyStr(en_XX), PyStr(fr_FR)}

ConfidenceStrings ==
    StringsUpTo({"l", "o", "w", "L", "O", "W"}, MaxConfStrLen)
    \cup {high, <<"H", "I", "G", "H">>, <<"H", "i", "g", "h">>,
          medium, <<"M", "E", "D", "I", "U", "M">>, <<"m", "e", "d", "i", "u", "M">>,
          <<"u", "n", "k", "n", "o", "w", "n">>, <<"0", ".", "9">>}
NumericValues ==
    {PyFloat(m) : m \in (0 - FloatOver)..(Scale + FloatOver)}
    \cup {PyInf(1), PyInf(-1), PyNaN}
    \cup {PyInt(n) : n \in -2..2} \cup {PyHugeInt(1), PyHugeInt(-1)}
    \cup {PyBool(TRUE), PyBool(FALSE)}
ConfidenceValues ==
    NumericValues \cup {PyStr(s) : s \in ConfidenceStrings} \cup {PyNone, PyList}
FewConfidences ==
    {Absent, PyNone, PyFloat(876), PyFloat(Scale), PyStr(low), PyStr(medium),
     PyHugeInt(1)}

\* a transcript of n characters: words of five letters
LongText(n) == [i \in 1..n |-> IF i % 6 = 0 THEN " " ELSE "a"]
\* a long transcript that begins with a space
PaddedText(n) == <<" ">> \o LongText(n - 1)
TranscriptStrings ==
    StringsUpTo({"a", " "}, MaxTranscriptLen)
    \cup {LongText(n) : n \in {9, 10, 50, 51}}
    \cup {PaddedText(n) : n \in {10, 51}}
TranscriptValues == {Absent, PyNone} \cup {PyStr(s) : s \in TranscriptStrings}

ErrorValues == {Absent, PyNone, PyStr(<<>>), PyStr(<<"x">>)}

\* the dict that holds the given values under the keys that are not Absent
MakeResult(locale, confidence, transcript, error) ==
    LET all == [detected_locale |-> locale,
                transcription_confidence |-> confidence,
                transcript_text |-> transcript,
                error |-> error]
    IN  [key \in {k \in DOMAIN all : all[k] # Absent} |-> all[key]]

\* recognition results: every locale with a few confidences, every
\* confidence with a few locales, every transcript with a few of both
RecognitionResults ==
    {MakeResult(l, c, tr, e) :
        l \in LocaleValues, c \in FewConfidences, tr \in {Absent}, e \in ErrorValues}
    \cup
    {MakeResult(l, c, tr, e) :
        l \in FewLocales, c \in ConfidenceValues \cup {Absent},
        tr \in {PyStr(<<>>)}, e \in {Absent, PyStr(<<"x">>)}}
    \cup
    {MakeResult(l, c, tr, e) :
        l \in FewLocales, c \in FewConfidences, tr \in TranscriptValues,
        e \in ErrorValues}

\* the files that the output directory can hold after the download
FileNames ==
    {expected_wav_filename,
     base_filename \o <<"_", "2", ".", "W", "a", "v">>,
     base_filename \o <<".", "m", "4", "a">>,
     base_filename \o <<".", "w", "e", "b", "m">>,
     <<"o", "t", "h", "e", "r", ".", "w", "a", "v">>}
FileSizes == {1000, 1001, 2000}
Listings(n) ==
    {l \in UNION {[1..k -> {File(name, size) : name \in FileNames, size \in FileSizes}] :
                     k \in 0..n} :
        \A i, j \in 1..Len(l) : l[i].name = l[j].name => i = j}

FfmpegRuns ==
    {[outcome |-> "exit", returncode |-> rc, output_size |-> size] :
        rc \in {0, 1}, size \in FileSizes \cup {NoOutput}}
    \cup {[outcome |-> o, returncode |-> 0, output_size |-> NoOutput] :
             o \in {"timeout", "error"}}
GoodRun == [outcome |-> "exit", returncode |-> 0, output_size |-> 2000]

DownloadCall_(dir, makedirs, download, dir_after, listing, ffmpeg, remove) ==
    [fn |-> "download_and_extract_audio", output_dir |-> <<"t", "m", "p">>,
     dir |-> dir, makedirs |-> makedirs, download |-> download,
     dir_after |-> dir_after, listing |-> listing, ffmpeg |-> ffmpeg,
     remove |-> remove]

\* downloads: every listing with a conversion that succeeds; the short
\* listings with every run of ffmpeg and every outcome of os.remove; the
\* failures of the directory and of the download with the short listings
DownloadCalls ==
    {DownloadCall_(d, "ok", "ok", TRUE, l, GoodRun, "ok") :
        d \in {"missing", "listable"}, l \in Listings(MaxFiles)}
    \cup
    {DownloadCall_("listable", "ok", "ok", TRUE, l, f, r) :
        l \in Listings(2), f \in FfmpegRuns, r \in {"ok", "raise"}}
    \cup
    {DownloadCall_(d, m, dl, a, l, GoodRun, "ok") :
        d \in {"missing", "listable", "unlistable"}, m \in {"ok", "raise"},
        dl \in {"ok", "raise", "init_raise"}, a \in BOOLEAN, l \in Listings(1)}

\* what a secret or an environment variable can hold
SecretValues == {PyNone, PyStr(<<>>), PyStr(<<"s">>), PyInt(5)}
EnvValues == {PyNone, PyStr(<<>>), PyStr(<<"e">>)}
Secrets ==
    {[available |-> a, AZURE_SPEECH_KEY |-> k, AZURE_SPEECH_REGION |-> r] :
        a \in {TRUE}, k \in SecretValues, r \in SecretValues}
    \cup {[available |-> FALSE, AZURE_SPEECH_KEY |-> PyNone,
           AZURE_SPEECH_REGION |-> PyNone]}
Environments ==
    {[AZURE_SPEECH_KEY |-> k, AZURE_SPEECH_REGION |-> r] :
        k \in EnvValues, r \in EnvValues}

\* the NBest entry of the JSON payload, and the payloads
NBests ==
    {[kind |-> k] : k \in {"absent", "empty", "entry", "scalar_entry", "dict"}}
    \cup {[kind |-> "entry", Confidence |-> v] : v \in ConfidenceValues}
FewNBests ==
    {nb \in NBests :
        "Confidence" \in DOMAIN nb => nb.Confidence \in FewConfidences}
JsonOther(k) == [kind |-> k, NBest |-> [kind |-> "absent"]]
JsonPayloads ==
    {JsonOther(k) : k \in {"none", "invalid", "scalar", "array"}}
    \cup {[kind |-> "object", NBest |-> nb] : nb \in NBests}
    \cup {[kind |-> "object", NBest |-> nb, confidence |-> c] :
             nb \in FewNBests, c \in FewConfidences \ {Absent}}
FewJsonPayloads ==
    {j \in JsonPayloads :
        /\ "Confidence" \in DOMAIN j.NBest => j.NBest.Confidence = PyFloat(876)
        /\ "confidence" \in DOMAIN j => j.confidence = PyStr(low)}

Recognized(language, text, json) ==
    [outcome |-> "RecognizedSpeech", language |-> language, text |-> text,
     json |-> json]
SdkRuns ==
    {[outcome |-> "raise", message |-> m] : m \in {<<>>, <<"x">>}}
    \cup {Recognized(PyStr(en_US), PyStr(<<"a">>), j) : j \in JsonPayloads}
    \cup {Recognized(l, tx, j) :
             l \in {PyNone, PyStr(en_GB), PyStr(fr_FR)},
             tx \in {PyStr(<<>>), PyStr(LongText(51))},
             j \in FewJsonPayloads}
    \cup {[outcome |-> o] : o \in {"NoMatch", "ResultReason.SynthesizingAudio"}}
    \cup {[outcome |-> "Canceled", reason |-> r, error_details |-> d] :
             r \in {"CancellationReason.Error", "CancellationReason.EndOfStream"},
             d \in {PyStr(<<>>), PyStr(<<"x">>)}}
FewSdkRuns ==
    {[outcome |-> "raise", message |-> <<"x">>], [outcome |-> "NoMatch"],
     Recognized(PyStr(en_US), PyStr(<<"a">>), JsonOther("none"))}

NoSecrets ==
    [available |-> FALSE, AZURE_SPEECH_KEY |-> PyNone,
     AZURE_SPEECH_REGION |-> PyNone]
GoodEnv ==
    [AZURE_SPEECH_KEY |-> PyStr(<<"e">>), AZURE_SPEECH_REGION |-> PyStr(<<"e">>)]

AnalyzeCall_(audio, secrets, env, sdk) ==
    [fn |-> "analyze_audio_with_azure", audio_filepath |-> <<"a", ".", "w", "a", "v">>,
     audio |-> audio, secrets |-> secrets, env |-> env, sdk |-> sdk]
\* analyses: every run of the SDK on a good file with credentials; the
\* states of the file and of the credentials with a few runs
AnalyzeCalls ==
    {AnalyzeCall_("ok", NoSecrets, GoodEnv, sdk) : sdk \in SdkRuns}
    \cup
    {AnalyzeCall_(a, sec, e, sdk) :
        a \in {"missing", "empty", "ok"}, sec \in {NoSecrets}, e \in Environments,
        sdk \in FewSdkRuns}
    \cup
    {AnalyzeCall_("ok", sec, e, sdk) :
        sec \in Secrets, e \in {GoodEnv, [GoodEnv EXCEPT !.AZURE_SPEECH_KEY = PyNone]},
        sdk \in FewSdkRuns}

\* the runs of ffmpeg for a local file: also any other exception
PrepareRuns ==
    FfmpegRuns \cup {[outcome |-> "exception", returncode |-> 0,
                      output_size |-> NoOutput]}
\* the output directory before the call: empty, or with an older output
PrepareCalls ==
    {[fn |-> "prepare_audio_from_local_file", output_dir |-> <<"t", "m", "p">>,
      input_exists |-> e, files |-> fs, ffmpeg |-> f] :
        e \in BOOLEAN,
        fs \in {<<>>} \cup {<<File(processed_wav_filename, size)>> : size \in FileSizes},
        f \in PrepareRuns}

\* labels to describe: the nine of the table, their case variants, the
\* other labels of the classifier and the empty string
AccentLabels ==
    {get_supported_accents[i] : i \in 1..Len(get_supported_accents)}
    \cup {"american english", "AMERICAN ENGLISH", "American", "English",
          "Analysis Failed", "Undetermined", "English (Undetermined Region)",
          "Non-English", "English (Other Regional - XX)", ""}

Calls ==
    {[fn |-> "normalize_confidence_to_float", arg |-> v] : v \in ConfidenceValues}
    \cup
    {[fn |-> "determine_accent_and_confidence", arg |-> r] : r \in RecognitionResults}
    \cup
    {[fn |-> "calculate_processing_quality", confidence |-> c,
      transcript_length |-> n, locale |-> l] :
        c \in -1..MaxScore, n \in (0..MaxLength) \cup LongLengths, l \in {PyNone, PyStr(en_US)}}
    \cup
    {[fn |-> "get_supported_accents"]}
    \cup
    {[fn |-> "get_accent_description", accent_classification |-> label] :
        label \in AccentLabels}
    \cup
    DownloadCalls
    \cup
    {[fn |-> "get_azure_credentials", secrets |-> sec, env |-> e] :
        sec \in Secrets, e \in Environments}
    \cup
    AnalyzeCalls
    \cup
    PrepareCalls

--------------------------------------------------------------------------
(* The calls as a state machine: a call is chosen, then it is evaluated *)

\* what the page shows and what a request has done so far: the processor
\* that runs, the values given to progress_bar.progress, the calls made
\* (steps), the two progress indicators (none, shown, cleared), the values
\* that the processor holds, the record given to display_results and the
\* message reported with st.error
NoUi ==
    [processor |-> "none", progress |-> <<>>, steps |-> <<>>,
     bar |-> "none", text |-> "none", audio_path |-> PyNone,
     azure_result |-> PyNone, final_result |-> PyNone, displayed |-> PyNone,
     message |-> "none"]

Init ==
    /\ call \in Calls
    /\ pc = "start"
    /\ ret = NoRet
    /\ dir_files = Get(call, "files", <<>>)
    /\ ui = NoUi

NormalizeCall ==
    /\ pc = "start"
    /\ call.fn = "normalize_confidence_to_float"
    /\ ret' = normalize_confidence_to_float(call.arg)
    /\ pc' = "done"
    /\ UNCHANGED <<call, dir_files, ui>>

ClassifyCall ==
    /\ pc = "start"
    /\ call.fn = "determine_accent_and_confidence"
    /\ ret' = determine_accent_and_confidence(call.arg)
    /\ pc' = "done"
    /\ UNCHANGED <<call, dir_files, ui>>

QualityCall ==
    /\ pc = "start"
    /\ call.fn = "calculate_processing_quality"
    /\ ret' = Return(calculate_processing_quality(call.confidence,
                                                  call.transcript_length,
                                                  call.locale))
    /\ pc' = "done"
    /\ UNCHANGED <<call, dir_files, ui>>

SupportedAccentsCall ==
    /\ pc = "start"
    /\ call.fn = "get_supported_accents"
    /\ ret' = Return(get_supported_accents)
    /\ pc' = "done"
    /\ UNCHANGED <<call, dir_files, ui>>

DescriptionCall ==
    /\ pc = "start"
    /\ call.fn = "get_accent_description"
    /\ ret' = Return(get_accent_description(call.accent_classification))
    /\ pc' = "done"
    /\ UNCHANGED <<call, dir_files, ui>>

DownloadCall ==
    /\ pc = "start"
    /\ call.fn = "download_and_extract_audio"
    /\ ret' = download_and_extract_audio(call).ret
    /\ dir_files' = download_and_extract_audio(call).files
    /\ pc' = "done"
    /\ UNCHANGED <<call, ui>>

CredentialsCall ==
    /\ pc = "start"
    /\ call.fn = "get_azure_credentials"
    /\ ret' = Return(get_azure_credentials(call.secrets, call.env))
    /\ pc' = "done"
    /\ UNCHANGED <<call, dir_files, ui>>

AnalyzeCall ==
    /\ pc = "start"
    /\ call.fn = "analyze_audio_with_azure"
    /\ ret' = Return(analyze_audio_with_azure(call.audio_filepath, call.audio,
                                              call.secrets, call.env, call.sdk))
    /\ pc' = "done"
    /\ UNCHANGED <<call, dir_files, ui>>

PrepareCall ==
    /\ pc = "start"
    /\ call.fn = "prepare_audio_from_local_file"
    /\ ret' = prepare_audio_from_local_file(call.input_exists, call.files,
                                            call.output_dir, call.ffmpeg).ret
    /\ dir_files' = prepare_audio_from_local_file(call.input_exists, call.files,
                                                  call.output_dir, call.ffmpeg).files
    /\ pc' = "done"
    /\ UNCHANGED <<call, ui>>

Next ==
    \/ NormalizeCall
    \/ ClassifyCall
    \/ QualityCall
    \/ SupportedAccentsCall
    \/ DescriptionCall
    \/ DownloadCall
    \/ CredentialsCall
    \/ AnalyzeCall
    \/ PrepareCall

Spec == Init /\ [][Next]_vars

--------------------------------------------------------------------------
(* app.main after a click on the Analyze button, app.process_uploaded_file *)
(* and app.process_video_url, one action per step                          *)

\* check_azure_credentials()
check_azure_credentials(secrets, env) ==
    /\ get_azure_credentials(secrets, env)[1] # PyNone
    /\ get_azure_credentials(secrets, env)[2] # PyNone

\* variant of the validation that lets a URL together with a file through
input_problem_both_allowed(video_url, uploaded) ==
    IF Len(Strip(video_url)) = 0 /\ ~uploaded THEN "neither" ELSE "none"

\* the validation of the input in main (lines 124-130): uploaded is
\* uploaded_file is not None
input_problem(video_url, uploaded) ==
    IF Len(Strip(video_url)) = 0 /\ ~uploaded THEN "neither"
    ELSE IF Len(Strip(video_url)) > 0 /\ uploaded THEN "both"
    ELSE "none"

\* variant of the test of the error that lets every result through
has_error_never(azure_result) == FALSE

\* azure_result.get("error")
has_error(azure_result) == Truthy(Get(azure_result, "error", PyNone))

Shown(value) == [ui EXCEPT !.progress = Append(@, value)]
Called(state, step) == [state EXCEPT !.steps = Append(@, step)]
\* a step raised: the handler of Exception reports it
Failed(state) == [state EXCEPT !.message = "exception"]

MainClick ==
    /\ pc = "clicked"
    /\ IF \/ ~check_azure_credentials(call.secrets, call.env)
          \/ input_problem(call.video_url, call.uploaded) # "none"
       THEN pc' = "done" /\ UNCHANGED ui
       ELSE /\ pc' = "begin"
            /\ ui' = [ui EXCEPT !.processor =
                                    IF call.uploaded THEN "file" ELSE "url"]
    /\ UNCHANGED <<call, ret, dir_files>>

\* the progress indicators are created and the first progress is shown
StartProcessing ==
    /\ pc = "begin"
    /\ ui' = [ui EXCEPT !.bar = "shown", !.text = "shown",
                        !.progress = <<0, IF ui.processor = "file" THEN 10 ELSE 20>>]
    /\ pc' = IF ui.processor = "file" THEN "save" ELSE "extract"
    /\ UNCHANGED <<call, ret, dir_files>>

\* the uploaded file is written to the temporary directory
SaveUpload ==
    /\ pc = "save"
    /\ IF call.raises = "save"
       THEN ui' = Failed(ui) /\ pc' = "finally"
       ELSE ui' = Shown(30) /\ pc' = "extract"
    /\ UNCHANGED <<call, ret, dir_files>>

ExtractAudio ==
    /\ pc = "extract"
    /\ LET step == IF ui.processor = "file" THEN "prepare_audio_from_local_file"
                   ELSE "download_and_extract_audio"
           r == IF ui.processor = "file"
                THEN prepare_audio_from_local_file(TRUE, <<>>, call.output_dir,
                                                   call.ffmpeg)
                ELSE download_and_extract_audio(call)
       IN  IF call.raises = "extract" \/ r.ret.t = "raise"
           THEN /\ ui' = Failed(Called(ui, step))
                /\ pc' = "finally"
                /\ UNCHANGED dir_files
           ELSE IF ~Truthy(r.ret.v)
           THEN /\ ui' = [Called(ui, step) EXCEPT !.message = "extraction failed"]
                /\ pc' = "finally"
                /\ dir_files' = r.files
           ELSE /\ ui' = [Called(Shown(60), step) EXCEPT !.audio_path = r.ret.v]
                /\ pc' = "analyze"
                /\ dir_files' = r.files
    /\ UNCHANGED <<call, ret>>

AnalyzeAudio ==
    /\ pc = "analyze"
    /\ LET azure_result ==
               analyze_audio_with_azure(ui.audio_path.v, call.audio,
                                        call.secrets, call.env, call.sdk)
           called == Called(ui, "analyze_audio_with_azure")
       IN  IF call.raises = "analyze"
           THEN ui' = Failed(called) /\ pc' = "finally"
           ELSE IF DOMAIN azure_result = {}
           THEN /\ ui' = [called EXCEPT !.message = "analysis failed"]
                /\ pc' = "finally"
           ELSE IF has_error(azure_result)
           THEN /\ ui' = [called EXCEPT !.message = "analysis error",
                                        !.azure_result = azure_result]
                /\ pc' = "finally"
           ELSE /\ ui' = [Called(Shown(80), "analyze_audio_with_azure")
                              EXCEPT !.azure_result = azure_result]
                /\ pc' = "classify"
    /\ UNCHANGED <<call, ret, dir_files>>

ClassifyAccent ==
    /\ pc = "classify"
    /\ LET r == determine_accent_and_confidence(ui.azure_result)
           called == Called(ui, "determine_accent_and_confidence")
       IN  IF call.raises = "classify" \/ r.t = "raise"
           THEN ui' = Failed(called) /\ pc' = "finally"
           ELSE /\ ui' = [Called(Shown(100), "determine_accent_and_confidence")
                              EXCEPT !.final_result = r.v]
                /\ pc' = "display"
    /\ UNCHANGED <<call, ret, dir_files>>

DisplayResults ==
    /\ pc = "display"
    /\ LET called == [Called(ui, "display_results")
                          EXCEPT !.displayed = ui.final_result]
       IN  ui' = IF call.raises = "display" THEN Failed(called) ELSE called
    /\ pc' = "finally"
    /\ UNCHANGED <<call, ret, dir_files>>

\* variant of the finally block that clears the bar only
Cleanup_bar_only ==
    /\ pc = "finally"
    /\ ui' = [ui EXCEPT !.bar = "cleared"]
    /\ dir_files' = <<>>
    /\ pc' = "done"
    /\ UNCHANGED <<call, ret>>

\* the temporary directory is removed, then the finally block clears the
\* two progress indicators
Cleanup ==
    /\ pc = "finally"
    /\ ui' = [ui EXCEPT !.bar = "cleared", !.text = "cleared"]
    /\ dir_files' = <<>>
    /\ pc' = "done"
    /\ UNCHANGED <<call, ret>>

\* the requests: the state of the credentials, the two inputs, the step
\* that raises an exception if any, and what the steps meet
AppSdkRuns ==
    {[outcome |-> "raise", message |-> <<>>],
     [outcome |-> "raise", message |-> <<"x">>],
     [outcome |-> "NoMatch"],
     [outcome |-> "Canceled", reason |-> "CancellationReason.Error",
      error_details |-> PyStr(<<"x">>)],
     Recognized(PyStr(en_US), PyStr(<<"a">>), JsonOther("none")),
     Recognized(PyStr(en_GB), PyStr(LongText(51)),
                [kind |-> "object",
                 NBest |-> [kind |-> "entry", Confidence |-> PyFloat(876)]]),
     Recognized(PyStr(fr_FR), PyStr(<<"a">>), JsonOther("array"))}
AppEnvironments ==
    {GoodEnv,
     [GoodEnv EXCEPT !.AZURE_SPEECH_REGION = PyNone],
     [AZURE_SPEECH_KEY |-> PyStr(<<>>), AZURE_SPEECH_REGION |-> PyStr(<<>>)],
     [AZURE_SPEECH_KEY |-> PyNone, AZURE_SPEECH_REGION |-> PyNone]}
AppRuns ==
    {[fn |-> "main", video_url |-> url, uploaded |-> up, raises |-> x,
      secrets |-> NoSecrets, env |-> e, audio |-> "ok", sdk |-> sdk,
      output_dir |-> <<"t", "m", "p">>, dir |-> "listable", makedirs |-> "ok",
      download |-> dl, dir_after |-> TRUE, listing |-> l, ffmpeg |-> f,
      remove |-> "ok"] :
        url \in {<<>>, <<" ">>, <<"u">>}, up \in BOOLEAN,
        x \in {"none", "save", "extract", "analyze", "classify", "display"},
        e \in AppEnvironments, sdk \in AppSdkRuns, dl \in {"ok", "raise"},
        l \in {<<>>, <<File(expected_wav_filename, 2000)>>,
               <<File(base_filename \o <<".", "m", "4", "a">>, 2000)>>},
        f \in {GoodRun, [GoodRun EXCEPT !.returncode = 1]}}

AppInit ==
    /\ call \in AppRuns
    /\ pc = "clicked"
    /\ ret = NoRet
    /\ dir_files = <<>>
    /\ ui = NoUi

AppNext ==
    \/ MainClick
    \/ StartProcessing
    \/ SaveUpload
    \/ ExtractAudio
    \/ AnalyzeAudio
    \/ ClassifyAccent
    \/ DisplayResults
    \/ Cleanup

AppSpec == AppInit /\ [][AppNext]_vars

\* the steps of a request run one after the other until it ends
AppLiveSpec == AppSpec /\ WF_vars(AppNext)

\* the returned value of a finished call of fn
Returned(fn) == pc = "done" /\ call.fn = fn /\ ret.t = "return"
Raised(fn) == pc = "done" /\ call.fn = fn /\ ret.t = "raise"

TypeOK ==
    /\ pc \in {"start", "done"}
    /\ pc = "start" => ret = NoRet
    /\ Returned("normalize_confidence_to_float") =>
           ret.v.t = "float" /\ ret.v.k = "finite"

--------------------------------------------------------------------------
(* Properties.  A property of a function's result is stated on the calls   *)
(* that return; that a call returns at all is a property of its own.       *)

Classify == "determine_accent_and_confidence"
Normalize == "normalize_confidence_to_float"
Quality == "calculate_processing_quality"

\* the fields of the recognition result of a classification call
InLocale == Get(call.arg, "detected_locale", PyNone)
InError == Get(call.arg, "error", PyNone)
HasConfidence == "transcription_confidence" \in DOMAIN call.arg
InConfidence == call.arg.transcription_confidence
\* the result has no error: the key is absent or holds None
NoError == InError = PyNone
\* the locale is a str that is "en" or starts with "en-"
EnglishLocale ==
    /\ InLocale.t = "str"
    /\ InLocale.v = en \/ StartsWith(InLocale.v, en_dash)
\* the locale is a non-empty str that is neither "en" nor starts with "en-"
NonEnglishLocale ==
    /\ InLocale.t = "str"
    /\ InLocale.v # <<>>
    /\ ~(InLocale.v = en \/ StartsWith(InLocale.v, en_dash))

\* s begins with the tokens p
BeginsWith(s, p) == Len(s) >= Len(p) /\ \A i \in 1..Len(p) : s[i] = p[i]

\* C1: whenever the error field holds a non-null value, the record returned
\* is "Analysis Failed" with score 0 and an explanation that begins
\* "Analysis failed: {error}", whatever the other fields hold.
CexC1_NonNullErrorShortCircuits ==
    (Returned(Classify) /\ InError # PyNone) =>
        /\ ret.v.accent_classification = <<"Analysis Failed">>
        /\ ret.v.confidence_in_english_accent = 0
        /\ BeginsWith(ret.v.summary_explanation,
                      <<"Analysis failed: ">> \o InError.v)

\* C2: with no error and an English locale the score is the product
\* normalized_confidence * 100 truncated toward zero: it is the whole number
\* with score <= product < score + 1; 0.876 gives 87 and 0.799 gives 79.
ThmC2_EnglishScoreTruncated ==
    (Returned(Classify) /\ NoError /\ EnglishLocale) =>
        LET product == FloatMul(ret.v.debug_info.normalized_confidence, 100).v
            score == ret.v.confidence_in_english_accent
        IN  /\ score * Scale <= product
            /\ product < (score + 1) * Scale
            /\ (HasConfidence /\ InConfidence = PyFloat(876)) => score = 87
            /\ (HasConfidence /\ InConfidence = PyFloat(799)) => score = 79

WitC2_EnglishScoreTruncated ==
    /\ Returned(Classify) /\ NoError
    /\ InLocale = PyStr(en_US)
    /\ HasConfidence /\ InConfidence = PyFloat(876)
    /\ ret.v.confidence_in_english_accent = 87

\* the locale is an English variant that the table does not hold
OtherRegionalLocale ==
    /\ InLocale.t = "str"
    /\ StartsWith(InLocale.v, en_dash)
    /\ InLocale.v \notin TableLocales

\* what follows "en-" in the locale
AfterFirstDash == SubSeq(InLocale.v, 4, Len(InLocale.v))

OtherRegional(region) == <<"English (Other Regional - ">> \o region \o <<")">>

\* C3 as stated: with no error and an English variant outside the table the
\* label is "English (Other Regional - REGION)" where REGION is everything
\* after the first "-", also when the locale holds more than one "-".
CexC3_RegionIsAllAfterFirstDash ==
    (Returned(Classify) /\ NoError /\ OtherRegionalLocale) =>
        ret.v.accent_classification = OtherRegional(AfterFirstDash)

\* C3 amended: with no error and an English variant outside the table the
\* label is "English (Other Regional - REGION)" where REGION is what stands
\* between the first "-" and the next "-" (the end, if there is no other).
ThmC3_RegionIsSecondSubtag ==
    (Returned(Classify) /\ NoError /\ OtherRegionalLocale) =>
        \E n \in 0..Len(AfterFirstDash) :
            /\ \A i \in 1..n : AfterFirstDash[i] # "-"
            /\ n = Len(AfterFirstDash) \/ AfterFirstDash[n + 1] = "-"
            /\ ret.v.accent_classification =
                   OtherRegional(SubSeq(AfterFirstDash, 1, n))

WitC3_RegionIsSecondSubtag ==
    /\ Returned(Classify) /\ NoError
    /\ InLocale = PyStr(en_Latn_US)
    /\ ret.v.accent_classification = OtherRegional(<<"L", "a", "t", "n">>)

\* the confidence is null or of a type that is neither str nor a number
NullOrUnsupported == HasConfidence /\ InConfidence \in {PyNone, PyList}

\* C4 as stated: a confidence that is absent, null or of an unsupported type
\* is normalized to 0.5, and with no error and an English locale scores 50.
CexC4_AbsentNullUnsupportedIsHalf ==
    (Returned(Classify) /\ (~HasConfidence \/ NullOrUnsupported)) =>
        /\ ret.v.debug_info.normalized_confidence = PyFloat(500)
        /\ (NoError /\ EnglishLocale) => ret.v.confidence_in_english_accent = 50

\* C4 amended: a confidence that is null or of an unsupported type is
\* normalized to 0.5 and, with no error and an English locale, scores 50; a
\* confidence that is absent from the result is taken as 0.0 and scores 0.
ThmC4_NullUnsupportedHalfAbsentZero ==
    /\ (Returned(Classify) /\ NullOrUnsupported) =>
           /\ ret.v.debug_info.normalized_confidence = PyFloat(500)
           /\ (NoError /\ EnglishLocale) =>
                  ret.v.confidence_in_english_accent = 50
    /\ (Returned(Classify) /\ ~HasConfidence) =>
           /\ ret.v.debug_info.normalized_confidence = PyFloat(0)
           /\ ret.v.confidence_in_english_accent = 0

WitC4_NullUnsupportedHalfAbsentZero ==
    /\ Returned(Classify) /\ ~HasConfidence /\ NoError
    /\ InLocale = PyStr(en_GB)
    /\ ret.v.accent_classification = <<"British English">>
    /\ ret.v.confidence_in_english_accent = 0

\* the number that a numeric argument stands for, in thousandths
NumberOf(x) == IF x.t = "bool" THEN (IF x.v THEN Scale ELSE 0)
               ELSE IF x.t = "int" THEN x.v * Scale ELSE x.v
\* the argument is an int or a float that stands for a finite number
FiniteNumber(x) ==
    \/ x.t \in {"int", "bool"}
    \/ x.t = "float" /\ x.k = "finite"

UpperOf(c) ==
    CASE c = "h" -> "H" [] c = "i" -> "I" [] c = "g" -> "G" [] c = "m" -> "M"
      [] c = "e" -> "E" [] c = "d" -> "D" [] c = "u" -> "U" [] c = "l" -> "L"
      [] c = "o" -> "O" [] c = "w" -> "W"
\* s is the lower-case word w up to the case of its letters
SameWord(s, w) ==
    /\ Len(s) = Len(w)
    /\ \A i \in 1..Len(w) : s[i] = w[i] \/ s[i] = UpperOf(w[i])

\* C6: a string is matched, whatever the case of its letters, against
\* high -> 0.95, medium -> 0.70, low -> 0.40 and any other string gives 0.5
\* (also a string of digits such as "0.9"); an argument that is neither a
\* string nor a number (None included) gives 0.5.
ThmC6_StringsAndOthers ==
    /\ (Returned(Normalize) /\ IsStr(call.arg)) =>
           LET s == call.arg.v
           IN  /\ SameWord(s, high) => ret.v = PyFloat(950)
               /\ SameWord(s, medium) => ret.v = PyFloat(700)
               /\ SameWord(s, low) => ret.v = PyFloat(400)
               /\ ~(SameWord(s, high) \/ SameWord(s, medium) \/ SameWord(s, low))
                      => ret.v = PyFloat(500)
    /\ (pc = "done" /\ call.fn = Normalize
        /\ ~IsStr(call.arg) /\ ~IsIntOrFloat(call.arg)) => ret = Return(PyFloat(500))
    /\ (pc = "done" /\ call.fn = Normalize /\ IsStr(call.arg)) => ret.t = "return"

WitC6_StringsAndOthers ==
    /\ Returned(Normalize)
    /\ call.arg = PyStr(<<"H", "I", "G", "H">>)
    /\ ret.v = PyFloat(950)

\* C7: with no error and a locale that is absent, None or the empty string
\* the call returns, whatever the confidence is, the record "Undetermined"
\* with score 0 and an explanation that begins "Could not detect any speech
\* or language."; it never ends in an exception.
CexC7_NoLocaleIsUndetermined ==
    (pc = "done" /\ call.fn = Classify /\ NoError
     /\ InLocale \in {PyNone, PyStr(<<>>)}) =>
        /\ ret.t = "return"
        /\ ret.v.accent_classification = <<"Undetermined">>
        /\ ret.v.confidence_in_english_accent = 0
        /\ BeginsWith(ret.v.summary_explanation,
                      <<"Could not detect any speech or language.">>)

\* C8: with no error, the locale "en" gives "English (Undetermined Region)",
\* each of the nine table locales gives its label of the table, and every
\* non-empty locale that is not "en" and does not start with "en-" gives
\* "Non-English".
ThmC8_LabelOfLocale ==
    (Returned(Classify) /\ NoError /\ InLocale.t = "str") =>
        LET l == InLocale.v
            label == ret.v.accent_classification
        IN  /\ l = en => label = <<"English (Undetermined Region)">>
            /\ l = <<"e", "n", "-", "U", "S">> => label = <<"American English">>
            /\ l = <<"e", "n", "-", "G", "B">> => label = <<"British English">>
            /\ l = <<"e", "n", "-", "A", "U">> => label = <<"Australian English">>
            /\ l = <<"e", "n", "-", "C", "A">> => label = <<"Canadian English">>
            /\ l = <<"e", "n", "-", "I", "N">> => label = <<"Indian English">>
            /\ l = <<"e", "n", "-", "N", "Z">> => label = <<"New Zealand English">>
            /\ l = <<"e", "n", "-", "Z", "A">> => label = <<"South African English">>
            /\ l = <<"e", "n", "-", "I", "E">> => label = <<"Irish English">>
            /\ l = <<"e", "n", "-", "S", "G">> => label = <<"Singaporean English">>
            /\ NonEnglishLocale => label = <<"Non-English">>

WitC8_LabelOfLocale ==
    /\ Returned(Classify) /\ NoError
    /\ InLocale = PyStr(en_NZ)
    /\ ret.v.accent_classification = <<"New Zealand English">>

\* C9 as stated: with no error and a non-English locale the score is
\* normalized_confidence * 10 rounded to the nearest whole number (at most
\* one half away from the product) and clamped into [0, 10]; 1.0 gives 10.
CexC9_NonEnglishScoreRounded ==
    (Returned(Classify) /\ NoError /\ NonEnglishLocale) =>
        LET product == FloatMul(ret.v.debug_info.normalized_confidence, 10).v
            score == ret.v.confidence_in_english_accent
        IN  /\ 0 <= score /\ score <= 10
            /\ 2 * (score * Scale - product) <= Scale
            /\ 2 * (product - score * Scale) <= Scale
            /\ product = 10 * Scale => score = 10

\* C9 amended: with no error and a non-English locale the score is
\* normalized_confidence * 10 truncated toward zero (score <= product <
\* score + 1) and clamped into [0, 10]; 1.0 gives exactly 10.
ThmC9_NonEnglishScoreTruncated ==
    (Returned(Classify) /\ NoError /\ NonEnglishLocale) =>
        LET product == FloatMul(ret.v.debug_info.normalized_confidence, 10).v
            score == ret.v.confidence_in_english_accent
        IN  /\ 0 <= score /\ score <= 10
            /\ score * Scale <= product
            /\ product < (score + 1) * Scale
            /\ product = 10 * Scale => score = 10

WitC9_NonEnglishScoreTruncated ==
    /\ Returned(Classify) /\ NoError
    /\ InLocale = PyStr(fr_FR)
    /\ HasConfidence /\ InConfidence = PyFloat(876)
    /\ ret.v.confidence_in_english_accent = 8

\* C10: the rating is the first rule that matches, in this order:
\* score = 0; score < 30; score < 60 and length < 10; score < 60;
\* score < 80 and length > 50; score < 80; length > 50; otherwise.
ThmC10_QualityIsFirstMatch ==
    Returned(Quality) =>
        LET score == call.confidence
            length == call.transcript_length
            rules ==
                << <<score = 0, "Poor - No speech detected">>,
                   <<score < 30, "Poor - Low confidence">>,
                   <<score < 60 /\ length < 10,
                     "Fair - Moderate confidence, short audio">>,
                   <<score < 60, "Good - Moderate confidence">>,
                   <<score < 80 /\ length > 50,
                     "Very Good - High confidence, sufficient audio">>,
                   <<score < 80, "Good - High confidence">>,
                   <<length > 50,
                     "Excellent - Very high confidence, sufficient audio">>,
                   <<TRUE, "Very Good - Very high confidence">> >>
        IN  \E i \in 1..Len(rules) :
                /\ rules[i][1]
                /\ \A j \in 1..(i - 1) : ~rules[j][1]
                /\ ret.v = rules[i][2]

WitC10_QualityIsFirstMatch ==
    /\ Returned(Quality)
    /\ call.confidence = 85 /\ call.transcript_length = 60
    /\ ret.v = "Excellent - Very high confidence, sufficient audio"

\* C11: every processing_quality of a returned record is a tier, then
\* " - ", then a qualifier, with the tier one of Poor, Fair, Good, Very Good,
\* Excellent: the part before the first " - " is a tier for which the
\* colour map of display_results holds an icon.
ThmC11_QualityHasKnownTier ==
    Returned(Classify) =>
        LET parts == SplitSep(Chars(ret.v.processing_quality), <<" ", "-", " ">>)
        IN  /\ Len(parts) = 2
            /\ parts[1] \in {Poor, Fair, Good, VeryGood, Excellent}
            /\ parts[2] # <<>>
            /\ quality_rating(ret.v.processing_quality) = parts[1]
            /\ quality_icon(quality_rating(ret.v.processing_quality)) # "white"

WitC11_QualityHasKnownTier ==
    /\ Returned(Classify)
    /\ ret.v.processing_quality = "Very Good - High confidence, sufficient audio"
    /\ quality_rating(ret.v.processing_quality) = VeryGood

InTranscript ==
    IF "transcript_text" \in DOMAIN call.arg /\ call.arg.transcript_text.t = "str"
    THEN call.arg.transcript_text.v
    ELSE <<>>
HasNonSpace(s) == \E i \in 1..Len(s) : s[i] # " "
\* the maximal runs of non-space characters, counted by their first positions
TokenCount(s) ==
    Cardinality({i \in 1..Len(s) : s[i] # " " /\ (i = 1 \/ s[i - 1] = " ")})
WordSentence(n) == <<" Transcript contains ", ToString(n), " words.">>

\* C12: in every branch, the explanation ends with " Transcript contains N
\* words." exactly when transcript_text has a non-whitespace character, N
\* is the number of whitespace-separated tokens, and debug_info has the key
\* word_count (with value N) exactly in that case.
ThmC12_WordSentenceIffWords ==
    Returned(Classify) =>
        LET explanation == ret.v.summary_explanation
            debug_info == ret.v.debug_info
        IN  IF HasNonSpace(InTranscript)
            THEN /\ EndsWith(explanation, WordSentence(TokenCount(InTranscript)))
                 /\ Len(explanation) > 3
                 /\ "word_count" \in DOMAIN debug_info
                 /\ debug_info.word_count = TokenCount(InTranscript)
            ELSE /\ \A i \in 1..Len(explanation) :
                        explanation[i] \notin {" Transcript contains ", " words."}
                 /\ "word_count" \notin DOMAIN debug_info

WitC12_WordSentenceIffWords ==
    /\ Returned(Classify)
    /\ ret.v.accent_classification = <<"Analysis Failed">>
    /\ TokenCount(InTranscript) = 2
    /\ Len(InTranscript) = 3
    /\ ret.v.debug_info.word_count = 2

\* C13: the score of a returned record is an integer from 0 to 100; it is 0
\* when the label is "Analysis Failed" or "Undetermined", and at most 10
\* when the label is "Non-English".
ThmC13_ScoreRange ==
    Returned(Classify) =>
        LET score == ret.v.confidence_in_english_accent
            label == ret.v.accent_classification
        IN  /\ score \in 0..100
            /\ label \in {<<"Analysis Failed">>, <<"Undetermined">>} => score = 0
            /\ label = <<"Non-English">> => score <= 10

WitC13_ScoreRange ==
    /\ Returned(Classify)
    /\ ret.v.accent_classification = <<"Non-English">>
    /\ HasConfidence
    /\ InConfidence = PyFloat(Scale)
    /\ ret.v.confidence_in_english_accent = 10

NineLabels ==
    {"American English", "British English", "Australian English",
     "Canadian English", "Indian English", "New Zealand English",
     "South African English", "Irish English", "Singaporean English"}
FixedLabels ==
    NineLabels \cup {"Analysis Failed", "Undetermined",
                     "English (Undetermined Region)", "Non-English"}

\* C14: the label of a returned record is one of the nine regional labels,
\* "Analysis Failed", "Undetermined", "English (Undetermined Region)",
\* "Non-English", or "English (Other Regional - REGION)" for some REGION.
ThmC14_LabelSet ==
    Returned(Classify) =>
        LET label == ret.v.accent_classification
        IN  \/ Len(label) = 1 /\ label[1] \in FixedLabels
            \/ /\ Len(label) >= 2
               /\ label[1] = "English (Other Regional - "
               /\ label[Len(label)] = ")"
               /\ \A i \in 2..(Len(label) - 1) : label[i] \notin {"English (Other Regional - ", ")"}

WitC14_LabelSet ==
    /\ Returned(Classify)
    /\ InLocale = PyStr(en_US)
    /\ ret.v.accent_classification = <<"American English">>

SixFields ==
    {"accent_classification", "confidence_in_english_accent",
     "summary_explanation", "transcript_text", "processing_quality",
     "debug_info"}

\* C16 as stated: every call of determine_accent_and_confidence on a
\* recognition result returns a record with all six fields and raises
\* nothing, and every call of normalize_confidence_to_float returns a value.
CexC16_NoExceptionOnAnyResult ==
    /\ pc = "done" /\ call.fn = Classify =>
           ret.t = "return" /\ DOMAIN ret.v = SixFields
    /\ pc = "done" /\ call.fn = Normalize =>
           ret.t = "return" /\ ret.v.t = "float"

QualityLocales == {PyNone, PyStr(<<>>), PyStr(en_US), PyStr(fr_FR)}

\* C17: the processing_quality of a returned record is the rating of the
\* record's score and of the number of characters of transcript_text as
\* given, not trimmed (0 for an empty, null or absent transcript), and the
\* rating of a score and a length is the same for every locale.
ThmC17_QualityOfScoreAndRawLength ==
    /\ Returned(Classify) =>
           \A l \in QualityLocales \cup {InLocale} :
               ret.v.processing_quality =
                   calculate_processing_quality(ret.v.confidence_in_english_accent,
                                                Len(InTranscript), l)
    /\ Returned(Quality) =>
           \A l \in QualityLocales :
               ret.v = calculate_processing_quality(call.confidence,
                                                    call.transcript_length, l)

WitC17_QualityOfScoreAndRawLength ==
    /\ Returned(Classify)
    /\ InTranscript = PaddedText(10)
    /\ ret.v.confidence_in_english_accent = 50
    /\ ret.v.processing_quality = "Good - Moderate confidence"

SupportedAccents == "get_supported_accents"
Description == "get_accent_description"

\* C18: get_supported_accents returns the nine labels of the locale table,
\* in the order of the table and without duplicates; get_accent_description
\* returns a description of its own for each of the nine (not the generic
\* one, and not that of another label) and the generic one for any other
\* label.
ThmC18_SupportedAccentsAndDescriptions ==
    /\ Returned(SupportedAccents) =>
           /\ ret.v = [i \in 1..9 |-> locale_to_accent(locale_to_accent_keys[i])]
           /\ \A i, j \in 1..Len(ret.v) : ret.v[i] = ret.v[j] => i = j
           /\ {ret.v[i] : i \in 1..Len(ret.v)} = NineLabels
    /\ Returned(Description) =>
           IF call.accent_classification \in NineLabels
           THEN /\ ret.v # generic_description
                /\ \A other \in NineLabels \ {call.accent_classification} :
                       get_accent_description(other) # ret.v
           ELSE ret.v = "Regional variant of English with unique characteristics."

WitC18_SupportedAccents ==
    /\ Returned(SupportedAccents)
    /\ Len(ret.v) = 9
    /\ ret.v[6] = "New Zealand English"

Download == "download_and_extract_audio"
\* the call returned a path, not None
ReturnedPath == Returned(Download) /\ ret.v # PyNone
\* the name in the output directory of the path returned
ReturnedName == BaseName(call.output_dir, ret.v.v)

\* C19 as stated: a path returned by download_and_extract_audio names a
\* .wav file that exists in the output directory and is larger than 1000
\* bytes, whichever check found it (expected file, other WAV file,
\* conversion of an intermediate file).
CexC19_ReturnedWavIsLargeEnough ==
    ReturnedPath =>
        /\ ret.v.v = os_path_join(call.output_dir, ReturnedName)
        /\ EndsWith(Lower(ReturnedName), dot_wav)
        /\ Exists(dir_files, ReturnedName)
        /\ GetSize(dir_files, ReturnedName) > 1000

\* the URL is invalid or malformed, or the download fails otherwise
FailingDownload == call.download = "raise"
\* output_dir is missing and cannot be created
FailingDirectoryCreation == call.dir = "missing" /\ call.makedirs = "raise"
\* ffmpeg does not produce the converted file
FailingConversion ==
    \/ call.ffmpeg.outcome # "exit"
    \/ call.ffmpeg.returncode # 0
    \/ call.ffmpeg.output_size = NoOutput

\* C20 as stated: when the URL is invalid or the download fails, when the
\* output directory cannot be created, or when the conversion fails, the
\* call returns None, and no call ends with an exception.
CexC20_FailsGracefully ==
    pc = "done" /\ call.fn = Download =>
        /\ ret.t = "return"
        /\ FailingDownload \/ FailingDirectoryCreation => ret.v = PyNone
        /\ /\ FailingConversion
           /\ wav_files(call.listing) = <<>>
           => ret.v = PyNone

Credentials == "get_azure_credentials"

\* C21 as stated: get_azure_credentials returns a pair in which both values
\* are set and non-empty, or (None, None); never a pair in which only one
\* of the two is set.
CexC21_BothOrNeither ==
    Returned(Credentials) =>
        \/ Truthy(ret.v[1]) /\ Truthy(ret.v[2])
        \/ ret.v = <<PyNone, PyNone>>

Analyze == "analyze_audio_with_azure"

\* C22: every record returned by analyze_audio_with_azure carries a
\* transcription_confidence that is a number from 0.0 to 1.0, on every
\* path: confidence of NBest, top-level confidence, the defaults 0.85 and
\* 0.80, no JSON payload, no match, cancellation and the error paths.
ThmC22_AnalysisConfidenceInUnitRange ==
    Returned(Analyze) =>
        /\ "transcription_confidence" \in DOMAIN ret.v
        /\ ret.v.transcription_confidence.t = "float"
        /\ ret.v.transcription_confidence.k = "finite"
        /\ ret.v.transcription_confidence.v \in 0..Scale

WitC22_AnalysisConfidenceInUnitRange ==
    /\ Returned(Analyze)
    /\ call.sdk.outcome = "RecognizedSpeech"
    /\ call.sdk.json.kind = "object"
    /\ call.sdk.json.NBest = [kind |-> "entry", Confidence |-> PyFloat(Scale + 1)]
    /\ ret.v.transcription_confidence = PyFloat(Scale)

\* the call ends on a failure path: the file is missing or empty, the
\* credentials are missing, the SDK or the reading of the JSON raises, the
\* recognition is canceled or ends with an unknown reason
CredentialsMissing ==
    \/ ~Truthy(get_azure_credentials(call.secrets, call.env)[1])
    \/ ~Truthy(get_azure_credentials(call.secrets, call.env)[2])
AnalysisFailurePath ==
    \/ call.audio # "ok"
    \/ CredentialsMissing
    \/ call.sdk.outcome \notin {"RecognizedSpeech", "NoMatch"}
    \/ /\ call.sdk.outcome = "RecognizedSpeech"
       /\ recognized_confidence(call.sdk.json).t = "raise"

\* C27 as stated: analyze_audio_with_azure returns a record, never None;
\* on every failure path the record has a non-empty error, a null
\* detected_locale, confidence 0.0 and an empty transcript; only the
\* recognised-speech and no-match paths return a record without an error.
CexC27_FailureRecordHasError ==
    Returned(Analyze) =>
        IF AnalysisFailurePath
        THEN /\ "error" \in DOMAIN ret.v
             /\ ret.v.error.t = "str" /\ Len(ret.v.error.v) > 0
             /\ ret.v.detected_locale = PyNone
             /\ ret.v.transcription_confidence = PyFloat(0)
             /\ ret.v.transcript_text = PyStr(<<>>)
        ELSE "error" \notin DOMAIN ret.v

Prepare == "prepare_audio_from_local_file"

\* C23: prepare_audio_from_local_file returns the path of the processed WAV
\* file exactly when the input file exists, ffmpeg ended with return code 0
\* and the output file exists afterwards; in every other case (missing
\* input, other return code, missing output, timeout, ffmpeg missing, any
\* other exception) it returns None; it raises nothing.
ThmC23_PreparedPathIffConverted ==
    pc = "done" /\ call.fn = Prepare =>
        /\ ret.t = "return"
        /\ IF /\ call.input_exists
              /\ call.ffmpeg.outcome = "exit" /\ call.ffmpeg.returncode = 0
              /\ Exists(dir_files, processed_wav_filename)
           THEN ret.v = PyStr(os_path_join(call.output_dir, processed_wav_filename))
           ELSE ret.v = PyNone

WitC23_PreparedPathIffConverted ==
    /\ Returned(Prepare)
    /\ call.input_exists /\ call.files = <<>>
    /\ call.ffmpeg.returncode = 0 /\ call.ffmpeg.output_size = 1001
    /\ ret.v # PyNone
    /\ dir_files = <<File(processed_wav_filename, 1001)>>

\* C28: a record labelled "Analysis Failed", "Undetermined" or "Non-English"
\* has a quality of the Poor tier whatever the confidence and the length of
\* the transcript: "Poor - No speech detected" when the score is 0, "Poor -
\* Low confidence" otherwise; a record with a tier above Poor has an English
\* locale.
ThmC28_NonEnglishIsPoor ==
    Returned(Classify) =>
        LET label == ret.v.accent_classification
            score == ret.v.confidence_in_english_accent
            quality == ret.v.processing_quality
        IN  /\ label \in {<<"Analysis Failed">>, <<"Undetermined">>, <<"Non-English">>}
               => quality = IF score = 0 THEN "Poor - No speech detected"
                            ELSE "Poor - Low confidence"
            /\ quality_rating(quality) # Poor => EnglishLocale

WitC28_NonEnglishIsPoor ==
    /\ Returned(Classify)
    /\ ret.v.accent_classification = <<"Non-English">>
    /\ ret.v.confidence_in_english_accent = 10
    /\ Len(InTranscript) = 51
    /\ ret.v.processing_quality = "Poor - Low confidence"

\* the call reached the checks of the files: the directory was there or
\* was created, the download ended and the directory could be listed
ChecksReached ==
    /\ call.dir # "unlistable"
    /\ ~(call.dir = "missing" /\ call.makedirs = "raise")
    /\ call.download = "ok"
    /\ call.dir_after
\* the files of the listing with one of the extensions, named after the base
NamedLike(extensions) ==
    {f \in {call.listing[i] : i \in 1..Len(call.listing)} :
        /\ \E e \in extensions : EndsWith(Lower(f.name), e)
        /\ ContainsStr(f.name, base_filename)}
MaxSize(fs) == IF fs = {} THEN 0 ELSE CHOOSE n \in {f.size : f \in fs} :
                                          \A f \in fs : f.size <= n
WavCandidates == NamedLike({dot_wav})
Intermediates == NamedLike({audio_extensions[k] : k \in 1..Len(audio_extensions)})
ExpectedIsUsable ==
    \E f \in WavCandidates : f.name = expected_wav_filename /\ f.size > 1000
PathOf(name) == PyStr(os_path_join(call.output_dir, name))
\* the files of the listing that the directory no longer holds
Deleted ==
    {f \in {call.listing[i] : i \in 1..Len(call.listing)} :
        ~Exists(dir_files, f.name)}
ConversionSucceeded ==
    /\ call.ffmpeg.outcome = "exit" /\ call.ffmpeg.returncode = 0
    /\ Exists(dir_files, converted_wav_filename)

\* C29: after the download, the result is chosen in a fixed priority: the
\* expected youtube_audio.wav when larger than 1000 bytes; otherwise the
\* largest .wav file named after the base, when larger than 1000 bytes;
\* otherwise the conversion of the largest intermediate audio file, which
\* is attempted only when that file is larger than 1000 bytes.  The
\* intermediate file is deleted only after its conversion succeeded, and a
\* call that returns None has deleted no file.
ThmC29_SelectionPriority ==
    Returned(Download) /\ ChecksReached =>
        /\ IF ExpectedIsUsable
           THEN ret.v = PathOf(expected_wav_filename) /\ dir_files = call.listing
           ELSE IF MaxSize(WavCandidates) > 1000
           THEN /\ \E f \in WavCandidates :
                       f.size = MaxSize(WavCandidates) /\ ret.v = PathOf(f.name)
                /\ dir_files = call.listing
           ELSE IF MaxSize(Intermediates) > 1000
           THEN /\ ret.v \in {PyNone, PathOf(converted_wav_filename)}
                /\ ret.v # PyNone <=> ConversionSucceeded
                /\ call.ffmpeg.outcome = "exit" /\ call.ffmpeg.output_size # NoOutput
                   => Exists(dir_files, converted_wav_filename)
           ELSE ret.v = PyNone /\ dir_files = call.listing
        /\ \A f \in Deleted :
               /\ f \in Intermediates /\ f.size = MaxSize(Intermediates)
               /\ ConversionSucceeded
               /\ ret.v = PathOf(converted_wav_filename)
               /\ Cardinality(Deleted) = 1
        /\ ret.v = PyNone => Deleted = {}

WitC29_SelectionPriority ==
    /\ Returned(Download) /\ ChecksReached
    /\ ~ExpectedIsUsable
    /\ MaxSize(WavCandidates) = 1000
    /\ Cardinality(Intermediates) = 2
    /\ MaxSize(Intermediates) = 2000
    /\ ret.v = PathOf(converted_wav_filename)
    /\ Cardinality(Deleted) = 1

AppTypeOK ==
    /\ pc \in {"clicked", "begin", "save", "extract", "analyze", "classify",
               "display", "finally", "done"}
    /\ ui.bar \in {"none", "shown", "cleared"}
    /\ ui.text \in {"none", "shown", "cleared"}
    /\ ret = NoRet

\* the positions in steps of the calls of a function
CallsOf(step) == {i \in 1..Len(ui.steps) : ui.steps[i] = step}
ExtractionSteps == {"prepare_audio_from_local_file", "download_and_extract_audio"}
\* the order of the calls of a request
StepOrder(first) ==
    <<first, "analyze_audio_with_azure", "determine_accent_and_confidence",
      "display_results">>

\* C24: in both processors the steps run in a fixed order and each gate
\* stops the request: determine_accent_and_confidence is called at most
\* once, only after the extraction returned a path and the analysis
\* returned a result whose error is empty; display_results is called only
\* after that classification; no record labelled "Analysis Failed" is
\* given to display_results.
ThmC24_GatesBeforeClassification ==
    /\ \E first \in ExtractionSteps :
           /\ Len(ui.steps) <= 4
           /\ ui.steps = SubSeq(StepOrder(first), 1, Len(ui.steps))
           /\ ui.steps # <<>> =>
                  first = IF ui.processor = "file"
                          THEN "prepare_audio_from_local_file"
                          ELSE "download_and_extract_audio"
    /\ Cardinality(CallsOf("determine_accent_and_confidence")) <= 1
    /\ CallsOf("determine_accent_and_confidence") # {} =>
           /\ ui.audio_path.t = "str" /\ Len(ui.audio_path.v) > 0
           /\ ui.azure_result # PyNone
           /\ Get(ui.azure_result, "error", PyNone) \in {PyNone, PyStr(<<>>)}
    /\ CallsOf("display_results") # {} =>
           /\ CallsOf("determine_accent_and_confidence") # {}
           /\ ui.final_result # PyNone
           /\ ui.displayed = ui.final_result
    /\ ui.displayed # PyNone =>
           ui.displayed.accent_classification # <<"Analysis Failed">>

WitC24_GatesBeforeClassification ==
    /\ pc = "done"
    /\ ui.processor = "url"
    /\ ui.steps = StepOrder("download_and_extract_audio")
    /\ ui.displayed # PyNone
    /\ ui.displayed.accent_classification = <<"British English">>

\* C25: every run of a processor eventually clears the two progress
\* indicators, on every exit path (success, early return after a failed
\* step, exception of a step); the progress values shown never decrease,
\* and 100 is shown only after the classification completed.
ThmC25_IndicatorsCleared ==
    /\ [](/\ \A i, j \in 1..Len(ui.progress) :
                 i <= j => ui.progress[i] <= ui.progress[j]
          /\ (\E i \in 1..Len(ui.progress) : ui.progress[i] = 100) =>
                 /\ CallsOf("determine_accent_and_confidence") # {}
                 /\ ui.final_result # PyNone
          /\ pc = "done" /\ ui.processor # "none" =>
                 ui.bar = "cleared" /\ ui.text = "cleared")
    /\ (ui.processor # "none") ~> (ui.bar = "cleared" /\ ui.text = "cleared")

WitC25_IndicatorsCleared ==
    /\ pc = "done"
    /\ ui.message = "exception"
    /\ ui.progress = <<0, 10, 30, 60, 80, 100>>
    /\ ui.bar = "cleared" /\ ui.text = "cleared"

\* the request has a URL that is not blank
HasUrl == HasNonSpace(call.video_url)
\* the request may be processed: the credentials pass the check and exactly
\* one of the two inputs is given
Processable ==
    /\ check_azure_credentials(call.secrets, call.env)
    /\ HasUrl # call.uploaded

\* C26: after a click on Analyze, processing starts only when the
\* credentials pass check_azure_credentials and exactly one input is given
\* (a URL that is not blank, or an uploaded file).  Otherwise no download,
\* conversion or recognition is started; with exactly one input the
\* matching processor runs, and only that one.
ThmC26_ExactlyOneInput ==
    /\ ~Processable =>
           ui.processor = "none" /\ ui.steps = <<>> /\ ui.progress = <<>>
    /\ Processable /\ pc # "clicked" =>
           ui.processor = IF call.uploaded THEN "file" ELSE "url"
    /\ \A i \in 1..Len(ui.steps) :
           /\ ui.steps[i] = "prepare_audio_from_local_file" => call.uploaded
           /\ ui.steps[i] = "download_and_extract_audio" => HasUrl

WitC26_ExactlyOneInput ==
    /\ pc = "done"
    /\ check_azure_credentials(call.secrets, call.env)
    /\ HasUrl /\ call.uploaded
    /\ ui.processor = "none" /\ ui.steps = <<>>

====
